---- MODULE Spec2Model ----
(***************************************************************************)
(* Model of the two containers of the algorithms crate:                    *)
(*   BinaryTree<T>  (src/src/binarytree.rs)  insert / remove / prune       *)
(*   Stack<T>       (src/src/stack.rs)       push / pop / Iterator::next   *)
(* Option<X> is modelled as a sequence of length 0 (None) or 1 (Some).     *)
(* A value of T is a pair <<key, tag>>: Ord::cmp looks at the key only, so *)
(* two values can compare Equal and still be told apart by the caller.     *)
(***************************************************************************)
EXTENDS Integers, Sequences, FiniteSets, TLC

\* tree   the caller's BinaryTree<T>
\* old    the tree as it was before the last call
\* op     the last call on the tree: "new", "insert" or "remove"
\* arg    the argument of the last call, res its Result<T, T>
\* prunes the calls of prune made by the last call, in order: the node
\*        each was called on (before) and the node it left (after)
\* live   the keys whose insert returned Ok and whose remove has not
\*        returned Ok since
\* top    Stack<T>.top, the chain of StackNode
\* pushed the values pushed and not yet popped, oldest first; spre is
\*        pushed as it was before the last call
\* sop    the last call on the stack, sres the Option<T> of the last pop/next
\* mode   where the caller is around `for t in s`: "use", "iter" or "done"
\* v      the values the loop body collected; held the values the stack
\*        held when the loop started, oldest first
VARIABLES tree, old, op, arg, res, live, prunes,
          top, pushed, spre, sop, sres, mode, v, held

vars == <<tree, old, op, arg, res, live, prunes, top, pushed, spre, sop, sres, mode, v, held>>
treeVars == <<tree, old, op, arg, res, live, prunes>>
stackVars == <<top, pushed, spre, sop, sres, mode, v, held>>

\* ---------------------------------------------------------------- bounds
MaxVal == 4
MaxItem == 3
MaxDepth == 3

Tags == {"a", "b"}
Values == (1..MaxVal) \X Tags
Items == 1..MaxItem

\* ---------------------------------------------------------------- Option / Result
None == <<>>
Some(x) == <<x>>
Ok(x) == <<"Ok", x>>
Err(x) == <<"Err", x>>
IsOk(r) == Len(r) = 2 /\ r[1] = "Ok"
IsErr(r) == Len(r) = 2 /\ r[1] = "Err"

\* Mutant: the two values are compared in the wrong order.
cmp_swapped(a, b) ==
    IF b[1] < a[1] THEN "Less"
    ELSE IF b[1] > a[1] THEN "Greater"
    ELSE "Equal"

\* T: Ord -- the total order used by insert and remove.
cmp(a, b) ==
    IF a[1] < b[1] THEN "Less"
    ELSE IF a[1] > b[1] THEN "Greater"
    ELSE "Equal"

\* ---------------------------------------------------------------- BinaryTree
new == [val |-> None, left |-> None, right |-> None]

\* Mutant: on Equal the caller's value is handed back, not the stored one.
RECURSIVE insert_echo(_, _)
insert_echo(self, val) ==
    IF self.val = None
    THEN [self |-> [self EXCEPT !.val = Some(val)], result |-> Ok(val)]
    ELSE LET c == cmp(val, self.val[1]) IN
         IF c = "Equal"
         THEN [self |-> self, result |-> Err(val)]
         ELSE LET side == IF c = "Less" THEN "left" ELSE "right"
                  subtree == self[side]
              IN  IF subtree = None
                  THEN [self |-> [self EXCEPT ![side] = Some([new EXCEPT !.val = Some(val)])],
                        result |-> Ok(val)]
                  ELSE LET r == insert_echo(subtree[1], val) IN
                       [self |-> [self EXCEPT ![side] = Some(r.self)],
                        result |-> IF IsErr(r.result) THEN r.result ELSE Ok(val)]

RECURSIVE insert(_, _)
insert(self, val) ==
    IF self.val = None
    THEN [self |-> [self EXCEPT !.val = Some(val)], result |-> Ok(val)]
    ELSE LET c == cmp(val, self.val[1]) IN
         IF c = "Equal"
         THEN [self |-> self, result |-> Err(self.val[1])]
         ELSE LET side == IF c = "Less" THEN "left" ELSE "right"
                  subtree == self[side]
              IN  IF subtree = None
                  THEN [self |-> [self EXCEPT ![side] = Some([new EXCEPT !.val = Some(val)])],
                        result |-> Ok(val)]
                  ELSE LET r == insert(subtree[1], val) IN
                       [self |-> [self EXCEPT ![side] = Some(r.self)],
                        result |-> IF IsErr(r.result) THEN r.result ELSE Ok(val)]

\* Mutant: a child is deleted when it HAS a value.
prune_inverted(self) ==
    LET del_left == IF self.left = None THEN FALSE ELSE self.left[1].val # None
        del_right == IF self.right = None THEN FALSE ELSE self.right[1].val # None
    IN  [self EXCEPT !.left = IF del_left THEN None ELSE @,
                     !.right = IF del_right THEN None ELSE @]

\* Mutant: empty children are never deleted.
prune_noop(self) == self

\* Deletes any empty children: a child is deleted when its val is None.
prune(self) ==
    LET del_left == IF self.left = None THEN FALSE ELSE self.left[1].val = None
        del_right == IF self.right = None THEN FALSE ELSE self.right[1].val = None
    IN  [self EXCEPT !.left = IF del_left THEN None ELSE @,
                     !.right = IF del_right THEN None ELSE @]

\* One call of prune as the caller's record of it: the node it was called
\* on and the node it left.
pruned(self) == [before |-> self, after |-> prune(self)]

\* Mutant: the walk to the right is forgotten, the value of the node it is
\* called on is taken.
collapse_here(self) ==
    [self |-> prune([self EXCEPT !.val = None]), val |-> self.val,
     prunes |-> <<pruned([self EXCEPT !.val = None])>>]

\* Mutant: the rightmost value is read but not taken out.
RECURSIVE collapse_peek(_)
collapse_peek(self) ==
    IF self.right = None
    THEN [self |-> prune(self), val |-> self.val, prunes |-> <<pruned(self)>>]
    ELSE LET r == collapse_peek(self.right[1]) IN
         [self |-> prune([self EXCEPT !.right = Some(r.self)]), val |-> r.val,
          prunes |-> Append(r.prunes, pruned([self EXCEPT !.right = Some(r.self)]))]

\* Remove the rightmost value in tree and return its value.
RECURSIVE collapse_rightmost(_)
collapse_rightmost(self) ==
    IF self.right = None
    THEN [self |-> prune([self EXCEPT !.val = None]), val |-> self.val,
          prunes |-> <<pruned([self EXCEPT !.val = None])>>]
    ELSE LET r == collapse_rightmost(self.right[1]) IN
         [self |-> prune([self EXCEPT !.right = Some(r.self)]), val |-> r.val,
          prunes |-> Append(r.prunes, pruned([self EXCEPT !.right = Some(r.self)]))]

\* Mutant: the value handed back is read after the node was reshaped.
remove_equal_late(self) ==
    LET taken == [self EXCEPT !.val = None]
        n == IF taken.left = None /\ taken.right = None
             THEN [val |-> None, left |-> None, right |-> None]
             ELSE IF taken.left = None \/ taken.right = None
             THEN LET t == IF taken.left = None THEN taken.right[1] ELSE taken.left[1]
                  IN  [val |-> t.val, left |-> t.left, right |-> t.right]
             ELSE LET c == collapse_rightmost(taken.left[1])
                      l == c.self
                      copy == [val |-> l.val, left |-> l.left, right |-> l.right]
                  IN  [val |-> c.val, left |-> Some(copy), right |-> taken.right]
        calls == IF taken.left # None /\ taken.right # None
                 THEN collapse_rightmost(taken.left[1]).prunes
                 ELSE <<>>
    IN  [self |-> n, result |-> IF n.val = None THEN Ok(self.val[1]) ELSE Ok(n.val[1]),
         prunes |-> calls]

\* Mutant: with exactly one child only the child's value is adopted, its own
\* left and right are left behind.
remove_equal_shallow(self) ==
    LET result == Ok(self.val[1])
        taken == [self EXCEPT !.val = None]
        n == IF taken.left = None /\ taken.right = None
             THEN [val |-> None, left |-> None, right |-> None]
             ELSE IF taken.left = None \/ taken.right = None
             THEN LET t == IF taken.left = None THEN taken.right[1] ELSE taken.left[1]
                  IN  [val |-> t.val, left |-> None, right |-> None]
             ELSE LET c == collapse_rightmost(taken.left[1])
                      l == c.self
                      copy == [val |-> l.val, left |-> l.left, right |-> l.right]
                  IN  [val |-> c.val, left |-> Some(copy), right |-> taken.right]
        calls == IF taken.left # None /\ taken.right # None
                 THEN collapse_rightmost(taken.left[1]).prunes
                 ELSE <<>>
    IN  [self |-> n, result |-> result, prunes |-> calls]

\* The Ordering::Equal arm of remove: take the value out, then reshape the
\* node from its children (none / exactly one / both).
remove_equal(self) ==
    LET result == Ok(self.val[1])
        taken == [self EXCEPT !.val = None]
        n == IF taken.left = None /\ taken.right = None
             THEN [val |-> None, left |-> None, right |-> None]
             ELSE IF taken.left = None \/ taken.right = None
             THEN LET t == IF taken.left = None THEN taken.right[1] ELSE taken.left[1]
                  IN  [val |-> t.val, left |-> t.left, right |-> t.right]
             ELSE LET c == collapse_rightmost(taken.left[1])
                      l == c.self
                      copy == [val |-> l.val, left |-> l.left, right |-> l.right]
                  IN  [val |-> c.val, left |-> Some(copy), right |-> taken.right]
        calls == IF taken.left # None /\ taken.right # None
                 THEN collapse_rightmost(taken.left[1]).prunes
                 ELSE <<>>
    IN  [self |-> n, result |-> result, prunes |-> calls]

\* Removes the matching node; Err(val) when there is none.  Every return
\* but the first goes through prune.
RECURSIVE remove(_, _)
remove(self, val) ==
    IF self.val = None
    THEN [self |-> self, result |-> Err(val), prunes |-> <<>>]
    ELSE LET c == cmp(val, self.val[1])
             r == IF c = "Equal"
                  THEN remove_equal(self)
                  ELSE LET side == IF c = "Less" THEN "left" ELSE "right" IN
                       IF self[side] = None
                       THEN [self |-> self, result |-> Err(val), prunes |-> <<>>]
                       ELSE LET s == remove(self[side][1], val) IN
                            [self |-> [self EXCEPT ![side] = Some(s.self)],
                             result |-> s.result, prunes |-> s.prunes]
         IN  [self |-> prune(r.self), result |-> r.result,
              prunes |-> Append(r.prunes, pruned(r.self))]

\* ---------------------------------------------------------------- Stack
StackNode_new(val) == [val |-> val, next |-> None]

\* Mutant: the old top is not linked behind the new node.
push_unlinked(self, val) == Some(StackNode_new(val))

push(self, val) ==
    LET node == StackNode_new(val)
        next == self
    IN  Some([node EXCEPT !.next = next])

\* Mutant: the popped node's next is not adopted as the new top.
pop_drop(self) ==
    IF self = None
    THEN [self |-> None, result |-> None]
    ELSE [self |-> None, result |-> Some(self[1].val)]

pop(self) ==
    IF self = None
    THEN [self |-> None, result |-> None]
    ELSE [self |-> self[1].next, result |-> Some(self[1].val)]

\* Iterator::next
next(self) == pop(self)

\* ---------------------------------------------------------------- behaviour
Init ==
    /\ tree = new
    /\ old = new
    /\ op = "new"
    /\ arg = None
    /\ res = None
    /\ live = {}
    /\ prunes = <<>>
    /\ top = None
    /\ pushed = <<>>
    /\ spre = <<>>
    /\ sop = "new"
    /\ sres = None
    /\ mode = "use"
    /\ v = <<>>
    /\ held = <<>>

Insert(val) ==
    /\ LET r == insert(tree, val) IN
        /\ tree' = r.self
        /\ res' = r.result
        /\ live' = IF IsOk(r.result) THEN live \cup {val[1]} ELSE live
    /\ prunes' = <<>>
    /\ old' = tree
    /\ op' = "insert"
    /\ arg' = val
    /\ UNCHANGED stackVars

Remove(val) ==
    /\ LET r == remove(tree, val) IN
        /\ tree' = r.self
        /\ res' = r.result
        /\ live' = IF IsOk(r.result) THEN live \ {val[1]} ELSE live
        /\ prunes' = r.prunes
    /\ old' = tree
    /\ op' = "remove"
    /\ arg' = val
    /\ UNCHANGED stackVars

Next ==
    \/ \E val \in Values : Insert(val)
    \/ \E val \in Values : Remove(val)

Spec == Init /\ [][Next]_vars

\* ---- stack driver: push/pop freely, then `for t in s { v.push(t) }`
Front(s) == IF s = <<>> THEN <<>> ELSE SubSeq(s, 1, Len(s) - 1)

Push(val) ==
    /\ mode \in {"use", "done"}
    /\ Len(pushed) < MaxDepth
    /\ top' = push(top, val)
    /\ spre' = pushed
    /\ pushed' = Append(pushed, val)
    /\ sop' = "push"
    /\ sres' = None
    /\ mode' = "use"
    /\ UNCHANGED <<v, held>>
    /\ UNCHANGED treeVars

Pop ==
    /\ mode \in {"use", "done"}
    /\ LET r == pop(top) IN
        /\ top' = r.self
        /\ sres' = r.result
    /\ spre' = pushed
    /\ pushed' = Front(pushed)
    /\ sop' = "pop"
    /\ UNCHANGED <<mode, v, held>>
    /\ UNCHANGED treeVars

IterStart ==
    /\ mode = "use"
    /\ mode' = "iter"
    /\ v' = <<>>
    /\ held' = pushed
    /\ sop' = "into_iter"
    /\ sres' = None
    /\ UNCHANGED <<top, pushed, spre>>
    /\ UNCHANGED treeVars

IterNext ==
    /\ mode \in {"iter", "done"}
    /\ LET r == next(top) IN
        /\ top' = r.self
        /\ sres' = r.result
        /\ IF mode = "iter"
           THEN IF r.result = None
                THEN mode' = "done" /\ v' = v
                ELSE mode' = "iter" /\ v' = Append(v, r.result[1])
           ELSE UNCHANGED <<mode, v>>
    /\ spre' = pushed
    /\ pushed' = Front(pushed)
    /\ sop' = "next"
    /\ UNCHANGED held
    /\ UNCHANGED treeVars

StackNext ==
    \/ \E val \in Items : Push(val)
    \/ Pop
    \/ IterStart
    \/ IterNext

StackSpec == Init /\ [][StackNext]_vars

\* ---------------------------------------------------------------- observations
RECURSIVE Size(_)
Size(t) ==
    (IF t.val = None THEN 0 ELSE 1)
    + (IF t.left = None THEN 0 ELSE Size(t.left[1]))
    + (IF t.right = None THEN 0 ELSE Size(t.right[1]))

\* in-order traversal: the stored values, left subtree first
RECURSIVE InOrder(_)
InOrder(t) ==
    (IF t.left = None THEN <<>> ELSE InOrder(t.left[1]))
    \o t.val
    \o (IF t.right = None THEN <<>> ELSE InOrder(t.right[1]))

Stored(t) == {InOrder(t)[i] : i \in 1..Len(InOrder(t))}
Keys(t) == {x[1] : x \in Stored(t)}
Contains(t, val) == val[1] \in Keys(t)
StoredAs(t, val) == CHOOSE x \in Stored(t) : x[1] = val[1]

\* every node of t, the root included
RECURSIVE Nodes(_)
Nodes(t) ==
    {t} \cup (IF t.left = None THEN {} ELSE Nodes(t.left[1]))
        \cup (IF t.right = None THEN {} ELSE Nodes(t.right[1]))

\* the node of t whose value compares Equal to val (t must contain val)
Matched(t, val) == CHOOSE n \in Nodes(t) : n.val # None /\ n.val[1][1] = val[1]

\* the sides taken from the root of t down to the node matching val
RECURSIVE PathTo(_, _)
PathTo(t, val) ==
    LET c == cmp(val, t.val[1]) IN
    IF c = "Equal" THEN <<>>
    ELSE IF c = "Less" THEN <<"left">> \o PathTo(t.left[1], val)
    ELSE <<"right">> \o PathTo(t.right[1], val)

\* the node reached from the root of t by the sides p; None when a side is absent
RECURSIVE NodeAt(_, _)
NodeAt(t, p) ==
    IF p = <<>> THEN Some(t)
    ELSE IF t[Head(p)] = None THEN None
    ELSE NodeAt(t[Head(p)][1], Tail(p))

MaxKey(S) == CHOOSE x \in S : \A y \in S : y[1] <= x[1]
MinKey(S) == CHOOSE x \in S : \A y \in S : x[1] <= y[1]

BothChildren(n) == n.left # None /\ n.right # None

\* the values held by the linked nodes, top first
RECURSIVE Contents(_)
Contents(s) == IF s = None THEN <<>> ELSE <<s[1].val>> \o Contents(s[1].next)

Reverse(s) == [i \in 1..Len(s) |-> s[Len(s) + 1 - i]]

\* ---------------------------------------------------------------- claims

\* C1: the number of occupied nodes grows by exactly 1 on a successful
\* insert, shrinks by exactly 1 on a successful remove, and is unchanged by
\* a failed insert or remove.
SizeConservation ==
    /\ (op = "insert" /\ IsOk(res)) => Size(tree) = Size(old) + 1
    /\ (op = "remove" /\ IsOk(res)) => Size(tree) = Size(old) - 1
    /\ (op \in {"insert", "remove"} /\ IsErr(res)) => Size(tree) = Size(old)

\* C2: after any sequence of calls, every occupied node's left subtree holds
\* only smaller values and its right subtree only greater ones, so the
\* in-order traversal is strictly increasing (no duplicates).
BSTOrdering ==
    /\ \A n \in Nodes(tree) : n.val # None =>
          /\ n.left # None => \A x \in Stored(n.left[1]) : x[1] < n.val[1][1]
          /\ n.right # None => \A x \in Stored(n.right[1]) : x[1] > n.val[1][1]
    /\ \A i \in 1..(Len(InOrder(tree)) - 1) : InOrder(tree)[i][1] < InOrder(tree)[i + 1][1]

BSTOrderingWitness ==
    /\ op = "remove" /\ IsOk(res)
    /\ BothChildren(Matched(old, arg))
    /\ Size(tree) >= 3

\* C3: remove(v) on a tree that does not contain v returns Err(v) and leaves
\* the tree exactly as it was.
NotFound ==
    (op = "remove" /\ ~Contains(old, arg)) => (res = Err(arg) /\ tree = old)

NotFoundWitness ==
    /\ op = "remove" /\ ~Contains(old, arg)
    /\ Size(old) >= 3 /\ BothChildren(old)
    /\ res = Err(arg) /\ tree = old

\* C4: insert(v) on a tree that already contains v returns Err of the value
\* already stored and leaves the tree exactly as it was (so a repeated
\* attempt meets the same tree and fails the same way).
Duplicate ==
    (op = "insert" /\ Contains(old, arg)) =>
        (res = Err(StoredAs(old, arg)) /\ tree = old)

DuplicateWitness ==
    /\ op = "insert" /\ Contains(old, arg)
    /\ StoredAs(old, arg) # arg
    /\ old.val[1][1] # arg[1]
    /\ res = Err(StoredAs(old, arg)) /\ tree = old

\* C5: in the state left by a successful remove(v), remove(v) fails with
\* Err(v) and insert(v) succeeds.
RemoveThenAbsence ==
    (op = "remove" /\ IsOk(res)) =>
        /\ remove(tree, arg).result = Err(arg)
        /\ insert(tree, arg).result = Ok(arg)

RemoveThenAbsenceWitness ==
    /\ op = "remove" /\ IsOk(res)
    /\ Size(tree) >= 2
    /\ remove(tree, arg).result = Err(arg)
    /\ arg \in Stored(insert(tree, arg).self)

\* C6: between operations no node without a value has a child and no
\* left/right reference points to a node without a value; only the root may
\* be valueless, and then it has no children.
PruningInvariant ==
    /\ tree.val = None => (tree.left = None /\ tree.right = None)
    /\ \A n \in Nodes(tree) :
          /\ n.left # None => n.left[1].val # None
          /\ n.right # None => n.right[1].val # None

PruningInvariantWitness ==
    /\ op = "remove" /\ IsOk(res)
    /\ PathTo(old, arg) # <<>>
    /\ ~BothChildren(Matched(old, arg))
    /\ NodeAt(tree, PathTo(old, arg)) = None

\* C7: when remove(v) matches a node with both children, that node's new
\* value is the maximum of its former left subtree (not the minimum of its
\* right subtree) and its right subtree is what it was before the call.
TwoChildrenPromotesPredecessor ==
    (op = "remove" /\ Contains(old, arg) /\ BothChildren(Matched(old, arg))) =>
        LET m == Matched(old, arg)
            n == NodeAt(tree, PathTo(old, arg))
        IN  /\ n # None
            /\ n[1].val = Some(MaxKey(Stored(m.left[1])))
            /\ n[1].val # Some(MinKey(Stored(m.right[1])))
            /\ n[1].right = m.right

TwoChildrenPromotesPredecessorWitness ==
    /\ op = "remove" /\ Contains(old, arg) /\ BothChildren(Matched(old, arg))
    /\ Matched(old, arg).left[1].right # None
    /\ NodeAt(tree, PathTo(old, arg))[1].val = Some(MaxKey(Stored(Matched(old, arg).left[1])))

\* C8: a successful insert(v) returns Ok(v); a successful remove(v) returns
\* Ok of the value stored at the matched node before the call, never the
\* value promoted into that node.
ReturnValues ==
    /\ (op = "insert" /\ IsOk(res)) => res = Ok(arg)
    /\ (op = "remove" /\ IsOk(res)) =>
          /\ Contains(old, arg)
          /\ res = Ok(StoredAs(old, arg))
          /\ LET n == NodeAt(tree, PathTo(old, arg)) IN
             (n # None /\ n[1].val # None) => res # Ok(n[1].val[1])

ReturnValuesWitness ==
    /\ op = "remove" /\ IsOk(res)
    /\ BothChildren(Matched(old, arg))
    /\ StoredAs(old, arg) # arg
    /\ res = Ok(StoredAs(old, arg))

\* C9: pop returns Some of the most recently pushed value not yet popped and
\* removes it; pop on an empty stack returns None and leaves it empty.
StackLIFO ==
    /\ Contents(top) = Reverse(pushed)
    /\ sop = "pop" =>
          IF spre = <<>>
          THEN sres = None /\ top = None
          ELSE sres = Some(spre[Len(spre)]) /\ Contents(top) = Reverse(Front(spre))

StackLIFOWitness ==
    /\ sop = "pop" /\ Len(spre) = MaxDepth
    /\ spre[1] # spre[2]
    /\ sres = Some(spre[Len(spre)])

\* C10: iterating a stack holding n values yields exactly those values,
\* last pushed first, then None; the loop ends exactly when the stack is
\* empty, and every later next or pop returns None.
DrainIteration ==
    /\ mode = "iter" => v \o Contents(top) = Reverse(held)
    /\ (mode = "iter" /\ sop = "next") => sres # None
    /\ mode = "done" =>
          /\ v = Reverse(held)
          /\ top = None
          /\ sres = None

DrainIterationWitness ==
    /\ mode = "done" /\ Len(held) = MaxDepth
    /\ held[1] # held[Len(held)]
    /\ v = Reverse(held)

\* the values stored below an optional child reference
StoredIn(o) == IF o = None THEN {} ELSE Stored(o[1])

\* C11: when remove(v) matches a node with both children, the node's left
\* subtree afterwards holds every value of the former left subtree but its
\* rightmost (greatest) one, which was promoted.
TwoChildrenKeepsLeftSubtree ==
    (op = "remove" /\ Contains(old, arg) /\ BothChildren(Matched(old, arg))) =>
        LET m == Matched(old, arg)
            n == NodeAt(tree, PathTo(old, arg))
        IN  /\ n # None
            /\ StoredIn(n[1].left) = Stored(m.left[1]) \ {MaxKey(Stored(m.left[1]))}

\* C12: over any sequence of calls the tree answers as a set: insert(v)
\* returns Err exactly when v was inserted with success and not removed with
\* success since, and remove(v) returns Ok exactly in that case.
SetSemantics ==
    \A val \in Values :
        /\ IsErr(insert(tree, val).result) <=> val[1] \in live
        /\ IsOk(remove(tree, val).result) <=> val[1] \in live

OneChild(n) == (n.left = None) # (n.right = None)
OnlyChild(n) == IF n.left = None THEN n.right[1] ELSE n.left[1]

\* C13: when remove(v) matches a node with exactly one child, the node
\* afterwards holds that child's former value, left and right (the child
\* takes the node's place, one node fewer), and only v leaves the tree.
OneChildSplice ==
    (op = "remove" /\ Contains(old, arg) /\ OneChild(Matched(old, arg))) =>
        LET m == Matched(old, arg)
            n == NodeAt(tree, PathTo(old, arg))
        IN  /\ n = Some(OnlyChild(m))
            /\ Size(tree) = Size(old) - 1
            /\ Stored(tree) = Stored(old) \ {StoredAs(old, arg)}

OneChildSpliceWitness ==
    /\ op = "remove" /\ Contains(old, arg) /\ OneChild(Matched(old, arg))
    /\ PathTo(old, arg) # <<>>
    /\ OnlyChild(Matched(old, arg)) # [new EXCEPT !.val = OnlyChild(Matched(old, arg)).val]
    /\ NodeAt(tree, PathTo(old, arg)) = Some(OnlyChild(Matched(old, arg)))

NoChildren(n) == n.left = None /\ n.right = None

\* C14: when remove(v) matches a node without children, a root becomes a
\* freshly created tree (no value, no children), and below the root the
\* parent's reference to the node becomes absent while the parent's value
\* and other child stay as they were.
ChildlessRemoval ==
    (op = "remove" /\ Contains(old, arg) /\ NoChildren(Matched(old, arg))) =>
        LET p == PathTo(old, arg) IN
        IF p = <<>>
        THEN tree = new
        ELSE LET before == NodeAt(old, Front(p))[1]
                 after == NodeAt(tree, Front(p))
             IN  after = Some([before EXCEPT ![p[Len(p)]] = None])

ChildlessRemovalWitness ==
    /\ op = "remove" /\ Contains(old, arg) /\ NoChildren(Matched(old, arg))
    /\ Len(PathTo(old, arg)) >= 2
    /\ BothChildren(NodeAt(old, Front(PathTo(old, arg)))[1])
    /\ OneChild(NodeAt(tree, Front(PathTo(old, arg)))[1])

\* the sides insert descends from the root of t for val: left when val is
\* less than the visited value, right when greater, down to an absent slot
RECURSIVE SlotFor(_, _)
SlotFor(t, val) ==
    LET side == IF val[1] < t.val[1][1] THEN "left" ELSE "right" IN
    IF t[side] = None THEN <<side>> ELSE <<side>> \o SlotFor(t[side][1], val)

\* t with the child reference at the end of the sides p set to x
RECURSIVE WithSlot(_, _, _)
WithSlot(t, p, x) ==
    IF Len(p) = 1 THEN [t EXCEPT ![p[1]] = x]
    ELSE [t EXCEPT ![Head(p)] = Some(WithSlot(t[Head(p)][1], Tail(p), x))]

\* C15: a successful insert(v) into an empty tree stores v in the root; into
\* a non-empty tree it adds one occupied childless node holding v at the
\* absent slot reached by going left when v is less and right when greater,
\* and every node that existed keeps its value and its place.
InsertPlacement ==
    (op = "insert" /\ IsOk(res)) =>
        IF old.val = None
        THEN tree = [new EXCEPT !.val = Some(arg)]
        ELSE LET p == SlotFor(old, arg) IN
             /\ NodeAt(old, p) = None
             /\ NodeAt(tree, p) = Some([new EXCEPT !.val = Some(arg)])
             /\ tree = WithSlot(old, p, Some([new EXCEPT !.val = Some(arg)]))
             /\ Size(tree) = Size(old) + 1

InsertPlacementWitness ==
    /\ op = "insert" /\ IsOk(res)
    /\ old.val # None
    /\ Len(SlotFor(old, arg)) >= 2
    /\ SlotFor(old, arg)[1] # SlotFor(old, arg)[2]
    /\ NodeAt(tree, SlotFor(old, arg)) = Some([new EXCEPT !.val = Some(arg)])

\* C16: in every call of prune made during remove or collapse_rightmost, a
\* left (resp. right) reference is set to absent only if that child has no
\* value and no children.
PruneOnlyEmpty ==
    \A i \in 1..Len(prunes) :
        LET b == prunes[i].before
            a == prunes[i].after
        IN  /\ (b.left # None /\ a.left = None) => b.left[1] = new
            /\ (b.right # None /\ a.right = None) => b.right[1] = new

====
